---------------------------- MODULE Spec2Model ----------------------------
(***************************************************************************)
(* Model of src/image_manipulation/single_image.py: a library of           *)
(* single-image transforms, each a call into an image-processing           *)
(* primitive.  A caller holds one image buffer and calls the functions on  *)
(* it in any order; every call is modelled with the arithmetic of the      *)
(* primitive it delegates to (8-bit samples, fixed-point interpolation,    *)
(* border extrapolation, saturation).                                      *)
(*                                                                         *)
(* An image is a record [dtype, px]: px[y][x][k] is sample k of the pixel  *)
(* in row y, column x (1-based here, 0-based in the helpers, as in the     *)
(* array the code receives).  A single-channel image has one sample per    *)
(* pixel.                                                                  *)
(*                                                                         *)
(* All ten functions are covered.  Where a primitive works through        *)
(* floating-point tables (non-local-means denoising, the Lab conversions,  *)
(* CLAHE) its samples are not computed: the result is the primitive's      *)
(* output for the inputs and parameters it received.                       *)
(***************************************************************************)
EXTENDS Integers, Sequences, FiniteSets, TLC

VARIABLES image,    \* the caller's image buffer, passed to every call
          pc,       \* "idle": no call pending; "returned": a call has returned
          op,       \* name of the function called last
          args,     \* the arguments of that call (a record)
          outcome,  \* "ok", "ValueError" or "cv2.error"
          message,  \* the message of the ValueError raised, "" otherwise
          result,   \* the returned image, NoImage when the call raised
          trace     \* the primitives the call invoked, in order

vars == <<image, pc, op, args, outcome, message, result, trace>>

-----------------------------------------------------------------------------
(* Bounds of the model. *)

MaxRows == 3
MaxCols == 3
MaxDim == 3
MaxKernel == 3

\* Arguments the caller passes.
Methods == {"otsu", "adaptive", "canny", "sobel", "bogus", "OTSU"}
BlockSizes == {3, 4, 5}
Offsets == {-3, 0, 2}
LowThresholds == {50, 200}
HighThresholds == {150, 100}
Strengths == {20, 30}
Hs == {10, 3}
HColors == {7, 21}
TemplateWindowSizes == {21, 7}

-----------------------------------------------------------------------------
(* Images. *)

NoImage == [dtype |-> "none", px |-> <<>>]

Rows(m) == Len(m.px)
Cols(m) == Len(m.px[1])
Chans(m) == Len(m.px[1][1])
At(m, y, x, k) == m.px[y + 1][x + 1][k + 1]

\* All samples of an image, as a set.
Samples(m) == {At(m, y, x, k) : y \in 0..(Rows(m) - 1), x \in 0..(Cols(m) - 1), k \in 0..(Chans(m) - 1)}

SetMax(S) == CHOOSE v \in S : \A u \in S : u <= v
SetMin(S) == CHOOSE v \in S : \A u \in S : v <= u
Max2(a, b) == IF a >= b THEN a ELSE b
Min2(a, b) == IF a <= b THEN a ELSE b
Abs(a) == IF a < 0 THEN -a ELSE a

\* saturate_cast<uchar>
SatU8(v) == IF v < 0 THEN 0 ELSE IF v > 255 THEN 255 ELSE v

\* The pixel values the caller's images are drawn from: BGR colours and
\* grey levels.
Colors == << <<0, 0, 0>>, <<255, 255, 255>>, <<30, 200, 90>>, <<128, 128, 128>> >>
Grays == << <<0>>, <<255>>, <<77>>, <<128>> >>

\* The caller's images: every size up to MaxRows x MaxCols, 3-channel colour
\* or single-channel, pixels laid out in a linear pattern over the palette
\* (a = b = 0 gives the flat images).
PatternImage(palette, rows, cols, a, b, s) ==
    [dtype |-> "uint8",
     px |-> [y \in 1..rows |-> [x \in 1..cols |->
                palette[((a * (y - 1) + b * (x - 1) + s) % Len(palette)) + 1]]]]

Images ==
    {PatternImage(p, r, c, a, b, s) :
        p \in {Colors, Grays}, r \in 1..MaxRows, c \in 1..MaxCols,
        a \in 0..(Len(Colors) - 1), b \in 0..(Len(Colors) - 1), s \in 0..(Len(Colors) - 1)}

\* What a function hands back to its caller.
Returned(img, tr) == [outcome |-> "ok", message |-> "", result |-> img, trace |-> tr]
Raised(kind, msg, tr) == [outcome |-> kind, message |-> msg, result |-> NoImage, trace |-> tr]

-----------------------------------------------------------------------------
(* cv2.resize(image, (width, height)): bilinear interpolation in fixed     *)
(* point (11-bit coefficients), as the primitive does for 8-bit samples.   *)

\* Source coordinate of destination index d: floor and the 11-bit weight of
\* the next sample, both clamped at the two ends of the source line.
ResizeNum(d, slen, dlen) == (2 * d + 1) * slen - dlen
ResizeOfs(d, slen, dlen) == ResizeNum(d, slen, dlen) \div (2 * dlen)
ResizeFrac(d, slen, dlen) ==
    (4096 * (ResizeNum(d, slen, dlen) % (2 * dlen)) + 2 * dlen) \div (4 * dlen)

Clip(v, n) == IF v < 0 THEN 0 ELSE IF v >= n THEN n - 1 ELSE v

\* Horizontal pass: ofs and weight are forced to the border sample when the
\* source coordinate falls outside the line.
ResizeH(m, y, dx, k, dcols) ==
    LET sx == ResizeOfs(dx, Cols(m), dcols)
        fx == ResizeFrac(dx, Cols(m), dcols)
    IN  IF sx < 0 THEN At(m, y, 0, k) * 2048
        ELSE IF sx >= Cols(m) - 1 THEN At(m, y, Cols(m) - 1, k) * 2048
        ELSE At(m, y, sx, k) * (2048 - fx) + At(m, y, sx + 1, k) * fx

\* Vertical pass: rows are clipped into the image, the weights are not.
ResizeLinear(m, dcols, drows) ==
    LET V(dy, dx, k) ==
            LET sy == ResizeOfs(dy, Rows(m), drows)
                fy == ResizeFrac(dy, Rows(m), drows)
                S0 == ResizeH(m, Clip(sy, Rows(m)), dx, k, dcols)
                S1 == ResizeH(m, Clip(sy + 1, Rows(m)), dx, k, dcols)
            IN  SatU8(((((2048 - fy) * (S0 \div 16)) \div 65536)
                        + ((fy * (S1 \div 16)) \div 65536) + 2) \div 4)
    IN  [dtype |-> "uint8",
         px |-> [y \in 1..drows |-> [x \in 1..dcols |-> [k \in 1..Chans(m) |->
                    V(y - 1, x - 1, k - 1)]]]]

\* Exact halving in both directions is done by averaging 2x2 blocks.
ResizeAreaFast2(m, dcols, drows) ==
    LET V(dy, dx, k) ==
            (At(m, 2 * dy, 2 * dx, k) + At(m, 2 * dy, 2 * dx + 1, k)
             + At(m, 2 * dy + 1, 2 * dx, k) + At(m, 2 * dy + 1, 2 * dx + 1, k) + 2) \div 4
    IN  [dtype |-> "uint8",
         px |-> [y \in 1..drows |-> [x \in 1..dcols |-> [k \in 1..Chans(m) |->
                    V(y - 1, x - 1, k - 1)]]]]

cv2_resize(m, width, height) ==
    IF width = Cols(m) /\ height = Rows(m) THEN m
    ELSE IF Cols(m) = 2 * width /\ Rows(m) = 2 * height THEN ResizeAreaFast2(m, width, height)
    ELSE ResizeLinear(m, width, height)

\* Mutant: the size handed over as (height, width).
resize_image_Swapped(img, width, height) ==
    IF width <= 0 \/ height <= 0
    THEN Raised("cv2.error", "", <<"resize">>)
    ELSE Returned(cv2_resize(img, height, width), <<"resize">>)

resize_image(img, width, height) ==
    IF width <= 0 \/ height <= 0
    THEN Raised("cv2.error", "", <<"resize">>)
    ELSE Returned(cv2_resize(img, width, height), <<"resize">>)

-----------------------------------------------------------------------------
(* Border extrapolation of the filters. *)

\* BORDER_REFLECT_101 (the filters' default): gfedcb|abcdefgh|gfedcba
RECURSIVE Reflect101(_, _)
Reflect101(p, n) ==
    IF n = 1 THEN 0
    ELSE IF p < 0 THEN Reflect101(-p, n)
    ELSE IF p >= n THEN Reflect101(2 * n - 2 - p, n)
    ELSE p

\* BORDER_REPLICATE: aaaaaa|abcdefgh|hhhhhhh
Replicate(p, n) == Clip(p, n)

-----------------------------------------------------------------------------
(* sharpen: cv2.filter2D(image, -1, kernel), the output keeps the input's  *)
(* depth, the anchor is the kernel centre and sums saturate to 0..255.     *)

\* Mutant: centre weight 4, a kernel that sums to 0.
SharpenKernel_ZeroSum == << <<0, -1, 0>>, <<-1, 4, -1>>, <<0, -1, 0>> >>

SharpenKernel == << <<0, -1, 0>>, <<-1, 5, -1>>, <<0, -1, 0>> >>

cv2_filter2D(m, kernel) ==
    LET ay == Len(kernel) \div 2
        ax == Len(kernel[1]) \div 2
        V(y, x, k) ==
            LET Term(i, j) ==
                    kernel[i + 1][j + 1]
                    * At(m, Reflect101(y + i - ay, Rows(m)), Reflect101(x + j - ax, Cols(m)), k)
                RowSum(i) == Term(i, 0) + Term(i, 1) + Term(i, 2)
            IN  SatU8(RowSum(0) + RowSum(1) + RowSum(2))
    IN  [dtype |-> m.dtype,
         px |-> [y \in 1..Rows(m) |-> [x \in 1..Cols(m) |-> [k \in 1..Chans(m) |->
                    V(y - 1, x - 1, k - 1)]]]]

sharpen(img) == Returned(cv2_filter2D(img, SharpenKernel), <<"filter2D">>)

-----------------------------------------------------------------------------
(* dilation: a filled rectangle of kernel_size x kernel_size, anchored at  *)
(* its centre (kernel_size \div 2); samples outside the image do not take  *)
(* part in the maximum.                                                    *)

\* Mutant: a cross-shaped element instead of the filled rectangle.
cv2_getStructuringElement_CROSS(kw, kh) ==
    [i \in 1..kh |-> [j \in 1..kw |->
        IF i - 1 = kh \div 2 \/ j - 1 = kw \div 2 THEN 1 ELSE 0]]

cv2_getStructuringElement_RECT(kw, kh) == [i \in 1..kh |-> [j \in 1..kw |-> 1]]

cv2_dilate(m, kernel) ==
    LET kh == Len(kernel)
        kw == Len(kernel[1])
        ay == kh \div 2
        ax == kw \div 2
        V(y, x, k) ==
            SetMax({At(m, y + i - ay, x + j - ax, k) :
                      <<i, j>> \in {q \in (0..(kh - 1)) \X (0..(kw - 1)) :
                                      /\ kernel[q[1] + 1][q[2] + 1] # 0
                                      /\ y + q[1] - ay \in 0..(Rows(m) - 1)
                                      /\ x + q[2] - ax \in 0..(Cols(m) - 1)}})
    IN  [dtype |-> m.dtype,
         px |-> [y \in 1..Rows(m) |-> [x \in 1..Cols(m) |-> [k \in 1..Chans(m) |->
                    V(y - 1, x - 1, k - 1)]]]]

dilation(img, kernel_size) ==
    IF kernel_size <= 0
    THEN Raised("cv2.error", "", <<"getStructuringElement">>)
    ELSE Returned(cv2_dilate(img, cv2_getStructuringElement_RECT(kernel_size, kernel_size)),
                  <<"getStructuringElement", "dilate">>)

-----------------------------------------------------------------------------
(* contrast_stretch: cv2.normalize(image, None, alpha=0, beta=255,         *)
(* NORM_MINMAX).  The minimum and maximum are taken over all samples of    *)
(* all channels; scale is 0 when they coincide; the result is rounded to   *)
(* the nearest integer, halves to the even one, and saturated.             *)

\* round(num / den), den > 0, num >= 0, ties to even
RoundHalfEven(num, den) ==
    LET q == num \div den
        r == num % den
    IN  IF 2 * r < den THEN q
        ELSE IF 2 * r > den THEN q + 1
        ELSE IF q % 2 = 0 THEN q ELSE q + 1

\* Mutant: scaled by the maximum only, the minimum is not subtracted.
cv2_normalize_NoShift(m, alpha, beta) ==
    LET smax == SetMax(Samples(m))
        V(y, x, k) ==
            IF smax > 0 THEN SatU8(RoundHalfEven(Max2(alpha, beta) * At(m, y, x, k), smax)) ELSE 0
    IN  [dtype |-> m.dtype,
         px |-> [y \in 1..Rows(m) |-> [x \in 1..Cols(m) |-> [k \in 1..Chans(m) |->
                    V(y - 1, x - 1, k - 1)]]]]

\* Mutant: an image with no range is handed back as it is.
cv2_normalize_KeepFlat(m, alpha, beta) ==
    LET smin == SetMin(Samples(m))
        smax == SetMax(Samples(m))
        V(y, x, k) ==
            IF smax - smin > 0
            THEN SatU8(Min2(alpha, beta)
                       + RoundHalfEven((Max2(alpha, beta) - Min2(alpha, beta)) * (At(m, y, x, k) - smin),
                                       smax - smin))
            ELSE At(m, y, x, k)
    IN  [dtype |-> m.dtype,
         px |-> [y \in 1..Rows(m) |-> [x \in 1..Cols(m) |-> [k \in 1..Chans(m) |->
                    V(y - 1, x - 1, k - 1)]]]]

cv2_normalize_MINMAX(m, alpha, beta) ==
    LET smin == SetMin(Samples(m))
        smax == SetMax(Samples(m))
        dmin == Min2(alpha, beta)
        dmax == Max2(alpha, beta)
        V(y, x, k) ==
            IF smax - smin > 0
            THEN SatU8(dmin + RoundHalfEven((dmax - dmin) * (At(m, y, x, k) - smin), smax - smin))
            ELSE SatU8(dmin)
    IN  [dtype |-> m.dtype,
         px |-> [y \in 1..Rows(m) |-> [x \in 1..Cols(m) |-> [k \in 1..Chans(m) |->
                    V(y - 1, x - 1, k - 1)]]]]

contrast_stretch(img) == Returned(cv2_normalize_MINMAX(img, 0, 255), <<"normalize">>)

-----------------------------------------------------------------------------
(* cv2.cvtColor(image, COLOR_BGR2GRAY): 15-bit fixed-point luma of a       *)
(* 3-channel (or 4-channel) image; any other channel count is refused.     *)

GrayConvertible(m) == Chans(m) \in {3, 4}

cv2_cvtColor_BGR2GRAY(m) ==
    LET V(y, x, k) ==
            (At(m, y, x, 0) * 3735 + At(m, y, x, 1) * 19235 + At(m, y, x, 2) * 9798 + 16384)
                \div 32768
    IN  [dtype |-> "uint8",
         px |-> [y \in 1..Rows(m) |-> [x \in 1..Cols(m) |-> [k \in 1..1 |->
                    V(y - 1, x - 1, k - 1)]]]]

-----------------------------------------------------------------------------
(* cv2.threshold(gray, 0, 255, THRESH_BINARY + THRESH_OTSU)                *)

\* The samples of a single-channel image in row-major order.
Flat(m) == [i \in 1..(Rows(m) * Cols(m)) |-> At(m, (i - 1) \div Cols(m), (i - 1) % Cols(m), 0)]

\* Number and sum of the samples that are <= v.
RECURSIVE CountLE(_, _, _)
CountLE(f, n, v) ==
    IF n = 0 THEN 0 ELSE CountLE(f, n - 1, v) + (IF f[n] <= v THEN 1 ELSE 0)

RECURSIVE SumLE(_, _, _)
SumLE(f, n, v) ==
    IF n = 0 THEN 0 ELSE SumLE(f, n - 1, v) + (IF f[n] <= v THEN f[n] ELSE 0)

\* a/b > c/d for a, c >= 0 and b, d > 0, without forming a*d
FracGT(a, b, c, d) ==
    \/ a \div b > c \div d
    \/ a \div b = c \div d /\ (a % b) * d > (c % d) * b

\* Between-class variance of the split "<= v | > v", up to the constant
\* factor 1/N^2: (s1*n2 - s2*n1)^2 / (n1*n2).
OtsuNum(f, v) ==
    LET n == Len(f)
        n1 == CountLE(f, n, v)
        s1 == SumLE(f, n, v)
        d == s1 * (n - n1) - (SumLE(f, n, 255) - s1) * n1
    IN  d * d
OtsuDen(f, v) ==
    LET n1 == CountLE(f, Len(f), v) IN n1 * (Len(f) - n1)

\* The level of maximal between-class variance; the scan goes upwards and
\* keeps the first maximum, levels with an empty class are skipped, and 0
\* is returned when no level splits the samples.
OtsuThreshold(m) ==
    LET f == Flat(m)
        top == SetMax(Samples(m))
        cand == {v \in Samples(m) : v < top}
        best == {v \in cand :
                    \A u \in cand : ~FracGT(OtsuNum(f, u), OtsuDen(f, u), OtsuNum(f, v), OtsuDen(f, v))}
    IN  IF cand = {} THEN 0 ELSE SetMin(best)

\* Mutant: THRESH_TOZERO, samples above the threshold are kept.
ThreshToZero(m, thresh, maxval) ==
    LET V(y, x, k) == IF At(m, y, x, k) > thresh THEN At(m, y, x, k) ELSE 0
    IN  [dtype |-> "uint8",
         px |-> [y \in 1..Rows(m) |-> [x \in 1..Cols(m) |-> [k \in 1..1 |->
                    V(y - 1, x - 1, k - 1)]]]]

\* THRESH_BINARY: maxval where the sample is above the threshold, else 0
ThreshBinary(m, thresh, maxval) ==
    LET V(y, x, k) == IF At(m, y, x, k) > thresh THEN maxval ELSE 0
    IN  [dtype |-> "uint8",
         px |-> [y \in 1..Rows(m) |-> [x \in 1..Cols(m) |-> [k \in 1..1 |->
                    V(y - 1, x - 1, k - 1)]]]]

cv2_threshold_OTSU(m, maxval) == ThreshBinary(m, OtsuThreshold(m), maxval)

-----------------------------------------------------------------------------
(* cv2.adaptiveThreshold(gray, 255, ADAPTIVE_THRESH_MEAN_C, THRESH_BINARY, *)
(* block_size, offset): the threshold of a pixel is the rounded mean of    *)
(* its block_size x block_size neighbourhood (border replicated) minus     *)
(* offset.                                                                 *)

ValidBlockSize(bs) == bs % 2 = 1 /\ bs > 1

RECURSIVE BoxRowSum(_, _, _, _, _)
BoxRowSum(m, yy, x, half, j) ==
    IF j > half THEN 0
    ELSE At(m, yy, Replicate(x + j, Cols(m)), 0) + BoxRowSum(m, yy, x, half, j + 1)

RECURSIVE BoxSum(_, _, _, _, _)
BoxSum(m, y, x, half, i) ==
    IF i > half THEN 0
    ELSE BoxRowSum(m, Replicate(y + i, Rows(m)), x, half, -half) + BoxSum(m, y, x, half, i + 1)

BoxMean(m, y, x, bs) == RoundHalfEven(BoxSum(m, y, x, bs \div 2, -(bs \div 2)), bs * bs)

cv2_adaptiveThreshold_MEAN_BINARY(m, maxval, bs, c) ==
    LET V(y, x, k) == IF At(m, y, x, 0) - BoxMean(m, y, x, bs) > -c THEN maxval ELSE 0
    IN  [dtype |-> "uint8",
         px |-> [y \in 1..Rows(m) |-> [x \in 1..Cols(m) |-> [k \in 1..1 |->
                    V(y - 1, x - 1, k - 1)]]]]

-----------------------------------------------------------------------------
(* apply_threshold: the grey conversion comes first, then the method is    *)
(* looked at.                                                              *)

ThresholdMessage(method) == "Invalid thresholding method: " \o method

\* Mutant: any method that is not 'adaptive' is treated as 'otsu'.
apply_threshold_DefaultOtsu(img, method, block_size, offset) ==
    IF ~GrayConvertible(img)
    THEN Raised("cv2.error", "", <<"cvtColor">>)
    ELSE LET gray == cv2_cvtColor_BGR2GRAY(img)
         IN  IF method = "adaptive"
             THEN IF ValidBlockSize(block_size)
                  THEN Returned(cv2_adaptiveThreshold_MEAN_BINARY(gray, 255, block_size, offset),
                                <<"cvtColor", "adaptiveThreshold">>)
                  ELSE Raised("cv2.error", "", <<"cvtColor", "adaptiveThreshold">>)
             ELSE Returned(cv2_threshold_OTSU(gray, 255), <<"cvtColor", "threshold">>)

apply_threshold(img, method, block_size, offset) ==
    IF ~GrayConvertible(img)
    THEN Raised("cv2.error", "", <<"cvtColor">>)
    ELSE LET gray == cv2_cvtColor_BGR2GRAY(img)
         IN  IF method = "otsu"
             THEN Returned(cv2_threshold_OTSU(gray, 255), <<"cvtColor", "threshold">>)
             ELSE IF method = "adaptive"
             THEN IF ValidBlockSize(block_size)
                  THEN Returned(cv2_adaptiveThreshold_MEAN_BINARY(gray, 255, block_size, offset),
                                <<"cvtColor", "adaptiveThreshold">>)
                  ELSE Raised("cv2.error", "", <<"cvtColor", "adaptiveThreshold">>)
             ELSE Raised("ValueError", ThresholdMessage(method), <<"cvtColor">>)

-----------------------------------------------------------------------------
(* reduce_noise: the four numbers are handed to                            *)
(* cv2.fastNlMeansDenoisingColored(src, dst, h, hColor,                    *)
(* templateWindowSize, searchWindowSize) by position, after dst = None.    *)
(* The denoised samples are not computed here: the result is the           *)
(* primitive's output for the source and the parameters it received,       *)
(* named as the primitive names them.                                      *)

Denoisable(m) == Chans(m) \in {3, 4}

cv2_fastNlMeansDenoisingColored(src, dst, h, hColor, templateWindowSize, searchWindowSize) ==
    [dtype |-> "uint8", px |-> <<>>, denoised |-> src,
     h |-> h, hColor |-> hColor,
     templateWindowSize |-> templateWindowSize, searchWindowSize |-> searchWindowSize]

reduce_noise(img, strength, h, hColor, templateWindowSize) ==
    IF ~Denoisable(img)
    THEN Raised("cv2.error", "", <<"fastNlMeansDenoisingColored">>)
    ELSE Returned(cv2_fastNlMeansDenoisingColored(img, NoImage, strength, h, hColor, templateWindowSize),
                  <<"fastNlMeansDenoisingColored">>)

-----------------------------------------------------------------------------
(* cv2.Sobel(gray, CV_64F, 1, 0, ksize=5): first x-derivative, 5x5         *)
(* separable kernel, border reflected, 64-bit float output (the values     *)
(* are whole numbers).                                                     *)

SobelDeriv5 == <<-1, -2, 0, 2, 1>>
SobelSmooth5 == <<1, 4, 6, 4, 1>>

RECURSIVE SepRow(_, _, _, _, _)
SepRow(m, yy, x, kx, j) ==
    IF j > Len(kx) THEN 0
    ELSE kx[j] * At(m, yy, Reflect101(x + j - 1 - (Len(kx) \div 2), Cols(m)), 0)
         + SepRow(m, yy, x, kx, j + 1)

RECURSIVE SepSum(_, _, _, _, _, _)
SepSum(m, y, x, kx, ky, i) ==
    IF i > Len(ky) THEN 0
    ELSE ky[i] * SepRow(m, Reflect101(y + i - 1 - (Len(ky) \div 2), Rows(m)), x, kx, 1)
         + SepSum(m, y, x, kx, ky, i + 1)

cv2_Sobel_64F_dx5(m) ==
    LET V(y, x, k) == SepSum(m, y, x, SobelDeriv5, SobelSmooth5, 1)
    IN  [dtype |-> "float64",
         px |-> [y \in 1..Rows(m) |-> [x \in 1..Cols(m) |-> [k \in 1..1 |->
                    V(y - 1, x - 1, k - 1)]]]]

-----------------------------------------------------------------------------
(* cv2.Canny(image, low_threshold, high_threshold): 3x3 Sobel gradients    *)
(* (border replicated), L1 magnitude, the strongest channel of each pixel, *)
(* non-maximum suppression along the quantised gradient direction, and     *)
(* hysteresis between the two thresholds.                                  *)

\* 3x3 Sobel derivatives of channel k at (y, x)
CannyDx(m, y, x, k) ==
    LET P(i, j) == At(m, Replicate(y + i, Rows(m)), Replicate(x + j, Cols(m)), k)
    IN  (P(-1, 1) + 2 * P(0, 1) + P(1, 1)) - (P(-1, -1) + 2 * P(0, -1) + P(1, -1))
CannyDy(m, y, x, k) ==
    LET P(i, j) == At(m, Replicate(y + i, Rows(m)), Replicate(x + j, Cols(m)), k)
    IN  (P(1, -1) + 2 * P(1, 0) + P(1, 1)) - (P(-1, -1) + 2 * P(-1, 0) + P(-1, 1))
CannyNorm(m, y, x, k) == Abs(CannyDx(m, y, x, k)) + Abs(CannyDy(m, y, x, k))

\* The first channel of maximal magnitude.
CannyChannel(m, y, x) ==
    LET best == SetMax({CannyNorm(m, y, x, k) : k \in 0..(Chans(m) - 1)})
    IN  SetMin({k \in 0..(Chans(m) - 1) : CannyNorm(m, y, x, k) = best})

\* Magnitude, 0 outside the image.
CannyMag(m, y, x) ==
    IF y \in 0..(Rows(m) - 1) /\ x \in 0..(Cols(m) - 1)
    THEN CannyNorm(m, y, x, CannyChannel(m, y, x))
    ELSE 0

\* A pixel above the low threshold that is a maximum along its gradient.
CannyLocalMax(m, y, x, low) ==
    LET k == CannyChannel(m, y, x)
        xs == CannyDx(m, y, x, k)
        ys == CannyDy(m, y, x, k)
        mag == CannyMag(m, y, x)
        ax == Abs(xs)
        ay == Abs(ys) * 32768
        tg22x == ax * 13573   \* tan(22.5 degrees) in 15-bit fixed point
        tg67x == tg22x + ax * 65536
        s == IF (xs < 0) # (ys < 0) THEN -1 ELSE 1
    IN  /\ mag > low
        /\ IF ay < tg22x
           THEN mag > CannyMag(m, y, x - 1) /\ mag >= CannyMag(m, y, x + 1)
           ELSE IF ay > tg67x
           THEN mag > CannyMag(m, y - 1, x) /\ mag >= CannyMag(m, y + 1, x)
           ELSE mag > CannyMag(m, y - 1, x - s) /\ mag > CannyMag(m, y + 1, x + s)

\* Hysteresis: grow the edge set over 8-connected candidates.
RECURSIVE CannyGrow(_, _)
CannyGrow(edges, cand) ==
    LET more == {p \in cand \ edges :
                    \E q \in edges : Abs(p[1] - q[1]) <= 1 /\ Abs(p[2] - q[2]) <= 1}
    IN  IF more = {} THEN edges ELSE CannyGrow(edges \cup more, cand)

cv2_Canny(m, threshold1, threshold2) ==
    LET low == Min2(threshold1, threshold2)
        high == Max2(threshold1, threshold2)
        cand == {p \in (0..(Rows(m) - 1)) \X (0..(Cols(m) - 1)) : CannyLocalMax(m, p[1], p[2], low)}
        strong == {p \in cand : CannyMag(m, p[1], p[2]) > high}
        edges == CannyGrow(strong, cand)
        V(y, x, k) == IF <<y, x>> \in edges THEN 255 ELSE 0
    IN  [dtype |-> "uint8",
         px |-> [y \in 1..Rows(m) |-> [x \in 1..Cols(m) |-> [k \in 1..1 |->
                    V(y - 1, x - 1, k - 1)]]]]

-----------------------------------------------------------------------------
(* detect_edges: the method is looked at first; only the Sobel branch      *)
(* converts to grey.                                                       *)

EdgeMessage(method) == "Invalid edge detection method: " \o method

\* Mutant: the grey conversion hoisted in front of the method test, as in
\* apply_threshold.
detect_edges_GrayFirst(img, method, low_threshold, high_threshold) ==
    IF ~GrayConvertible(img)
    THEN Raised("cv2.error", "", <<"cvtColor">>)
    ELSE IF method = "canny"
    THEN Returned(cv2_Canny(img, low_threshold, high_threshold), <<"cvtColor", "Canny">>)
    ELSE IF method = "sobel"
    THEN Returned(cv2_Sobel_64F_dx5(cv2_cvtColor_BGR2GRAY(img)), <<"cvtColor", "Sobel">>)
    ELSE Raised("ValueError", EdgeMessage(method), <<"cvtColor">>)

detect_edges(img, method, low_threshold, high_threshold) ==
    IF method = "canny"
    THEN Returned(cv2_Canny(img, low_threshold, high_threshold), <<"Canny">>)
    ELSE IF method = "sobel"
    THEN IF GrayConvertible(img)
         THEN Returned(cv2_Sobel_64F_dx5(cv2_cvtColor_BGR2GRAY(img)), <<"cvtColor", "Sobel">>)
         ELSE Raised("cv2.error", "", <<"cvtColor">>)
    ELSE Raised("ValueError", EdgeMessage(method), <<>>)

-----------------------------------------------------------------------------
(* rgb_to_hsv: cv2.cvtColor(image, COLOR_BGR2HSV) on 8-bit samples, hue in *)
(* 0..179, 12-bit fixed-point division tables.                             *)

ColorConvertible(m) == Chans(m) \in {3, 4}

\* round(num / i) for the table entries (no entry is a tie); entry 0 is 0
HsvDivTable(num, i) == IF i = 0 THEN 0 ELSE (2 * num + i) \div (2 * i)

HsvPixel(b, g, r) ==
    LET v == Max2(b, Max2(g, r))
        vmin == Min2(b, Min2(g, r))
        diff == v - vmin
        s == (diff * HsvDivTable(255 * 4096, v) + 2048) \div 4096
        h0 == IF v = r THEN g - b
              ELSE IF v = g THEN b - r + 2 * diff
              ELSE r - g + 4 * diff
        h1 == (h0 * HsvDivTable(180 * 4096, 6 * diff) + 2048) \div 4096
        h == IF h1 < 0 THEN h1 + 180 ELSE h1
    IN  <<SatU8(h), s, v>>

cv2_cvtColor_BGR2HSV(m) ==
    [dtype |-> "uint8",
     px |-> [y \in 1..Rows(m) |-> [x \in 1..Cols(m) |->
                HsvPixel(m.px[y][x][1], m.px[y][x][2], m.px[y][x][3])]]]

rgb_to_hsv(img) ==
    IF ColorConvertible(img)
    THEN Returned(cv2_cvtColor_BGR2HSV(img), <<"cvtColor">>)
    ELSE Raised("cv2.error", "", <<"cvtColor">>)

-----------------------------------------------------------------------------
(* rgb_to_lab: cv2.cvtColor(image, COLOR_BGR2LAB).  The Lab samples are    *)
(* not computed: the result is the conversion's output for its source.     *)

cv2_cvtColor_BGR2LAB(src) == [dtype |-> "uint8", px |-> <<>>, lab_of |-> src]

rgb_to_lab(img) ==
    IF ColorConvertible(img)
    THEN Returned(cv2_cvtColor_BGR2LAB(img), <<"cvtColor">>)
    ELSE Raised("cv2.error", "", <<"cvtColor">>)

-----------------------------------------------------------------------------
(* contrast: to Lab, split, CLAHE (clip limit 2.0, 8x8 tiles) on the L     *)
(* channel, merge with the a and b channels, back to BGR.  The samples are *)
(* not computed: the result records the chain of primitives and what each  *)
(* received.                                                               *)

cv2_split(src) == [c \in 1..3 |-> [channel |-> c - 1, of |-> src]]
cv2_createCLAHE(clipLimit, tileGridSize) == [clipLimit |-> clipLimit, tileGridSize |-> tileGridSize]
CLAHE_apply(clahe, src) == [clahe |-> clahe, equalized |-> src]
cv2_merge(channels) == [merged |-> channels]
cv2_cvtColor_LAB2BGR(src) == [dtype |-> "uint8", px |-> <<>>, bgr_of |-> src]

contrast(img) ==
    IF ~ColorConvertible(img)
    THEN Raised("cv2.error", "", <<"cvtColor">>)
    ELSE LET lab == cv2_cvtColor_BGR2LAB(img)
             chans == cv2_split(lab)
             clahe == cv2_createCLAHE(2, <<8, 8>>)
             cl == CLAHE_apply(clahe, chans[1])
             limg == cv2_merge(<<cl, chans[2], chans[3]>>)
         IN  Returned(cv2_cvtColor_LAB2BGR(limg),
                      <<"cvtColor", "split", "createCLAHE", "apply", "merge", "cvtColor">>)

-----------------------------------------------------------------------------
(* The caller. *)

Init ==
    /\ image \in Images
    /\ pc = "idle"
    /\ op = "none"
    /\ args = <<>>
    /\ outcome = "none"
    /\ message = ""
    /\ result = NoImage
    /\ trace = <<>>

Call(name, a, r) ==
    /\ pc = "idle"
    /\ pc' = "returned"
    /\ op' = name
    /\ args' = a
    /\ outcome' = r.outcome
    /\ message' = r.message
    /\ result' = r.result
    /\ trace' = r.trace
    /\ UNCHANGED image

CallResizeImage ==
    \E w \in 1..MaxDim, h \in 1..MaxDim :
        Call("resize_image", [width |-> w, height |-> h], resize_image(image, w, h))

CallSharpen == Call("sharpen", <<>>, sharpen(image))

CallDilation ==
    \E ks \in 1..MaxKernel :
        Call("dilation", [kernel_size |-> ks], dilation(image, ks))

CallContrastStretch == Call("contrast_stretch", <<>>, contrast_stretch(image))

CallApplyThreshold ==
    \E method \in Methods, bs \in BlockSizes, c \in Offsets :
        Call("apply_threshold", [method |-> method, block_size |-> bs, offset |-> c],
             apply_threshold(image, method, bs, c))

CallDetectEdges ==
    \E method \in Methods, lo \in LowThresholds, hi \in HighThresholds :
        Call("detect_edges", [method |-> method, low_threshold |-> lo, high_threshold |-> hi],
             detect_edges(image, method, lo, hi))

CallReduceNoise ==
    \E st \in Strengths, h \in Hs, hc \in HColors, tws \in TemplateWindowSizes :
        Call("reduce_noise", [strength |-> st, h |-> h, hColor |-> hc, templateWindowSize |-> tws],
             reduce_noise(image, st, h, hc, tws))

CallContrast == Call("contrast", <<>>, contrast(image))

CallRgbToHsv == Call("rgb_to_hsv", <<>>, rgb_to_hsv(image))

CallRgbToLab == Call("rgb_to_lab", <<>>, rgb_to_lab(image))

\* The caller takes the result and is ready for its next call.
Release ==
    /\ pc = "returned"
    /\ pc' = "idle"
    /\ op' = "none"
    /\ args' = <<>>
    /\ outcome' = "none"
    /\ message' = ""
    /\ result' = NoImage
    /\ trace' = <<>>
    /\ UNCHANGED image

Next ==
    \/ CallResizeImage
    \/ CallSharpen
    \/ CallDilation
    \/ CallContrastStretch
    \/ CallApplyThreshold
    \/ CallDetectEdges
    \/ CallReduceNoise
    \/ CallContrast
    \/ CallRgbToHsv
    \/ CallRgbToLab
    \/ Release

Spec == Init /\ [][Next]_vars

-----------------------------------------------------------------------------
(* Properties. *)

SameShape(a, b) == Rows(a) = Rows(b) /\ Cols(a) = Cols(b) /\ Chans(a) = Chans(b)
IsFlat(m) == \A y \in 1..Rows(m), x \in 1..Cols(m) : m.px[y][x] = m.px[1][1]
IsConstant(m) == Cardinality(Samples(m)) = 1

\* C1, as claimed: for every image, apply_threshold with a method other than
\* 'otsu' and 'adaptive' raises a ValueError whose message names the method,
\* and returns no image.
C1_AnyImage ==
    (pc = "returned" /\ op = "apply_threshold" /\ args.method \notin {"otsu", "adaptive"})
        => /\ outcome = "ValueError"
           /\ message = "Invalid thresholding method: " \o args.method
           /\ result = NoImage

\* C1, amended: for every image the grey conversion accepts, apply_threshold
\* with a method other than 'otsu' and 'adaptive' raises a ValueError whose
\* message names the method, and returns no image; for an image the grey
\* conversion cannot handle, the conversion's own error is raised instead,
\* before the method is looked at.
C1_ConvertibleImage ==
    (pc = "returned" /\ op = "apply_threshold" /\ args.method \notin {"otsu", "adaptive"})
        => IF Chans(image) \in {3, 4}
           THEN /\ outcome = "ValueError"
                /\ message = "Invalid thresholding method: " \o args.method
                /\ result = NoImage
           ELSE /\ outcome = "cv2.error"
                /\ trace = <<"cvtColor">>
                /\ result = NoImage

C1_Witness ==
    /\ pc = "returned" /\ op = "apply_threshold" /\ args.method = "bogus"
    /\ Chans(image) = 3
    /\ outcome = "ValueError"
    /\ message = "Invalid thresholding method: bogus"

\* C2: for every image, detect_edges with a method other than 'canny' and
\* 'sobel' raises a ValueError whose message names the method, before any
\* image-processing primitive has been invoked on the image.
C2_InvalidEdgeMethod ==
    (pc = "returned" /\ op = "detect_edges" /\ args.method \notin {"canny", "sobel"})
        => /\ outcome = "ValueError"
           /\ message = "Invalid edge detection method: " \o args.method
           /\ trace = <<>>
           /\ result = NoImage

C2_Witness ==
    /\ pc = "returned" /\ op = "detect_edges" /\ args.method = "bogus"
    /\ Chans(image) = 1
    /\ outcome = "ValueError"
    /\ message = "Invalid edge detection method: bogus"

\* C3: resize_image(img, w, h) returns an image of exactly h rows and w
\* columns, whatever the size and aspect ratio of img, with the channel
\* count of img.
C3_ResizeDimensions ==
    (pc = "returned" /\ op = "resize_image")
        => /\ outcome = "ok"
           /\ result.dtype = "uint8"
           /\ Rows(result) = args.height
           /\ \A y \in 1..Rows(result) :
                /\ Len(result.px[y]) = args.width
                /\ \A x \in 1..args.width : Len(result.px[y][x]) = Chans(image)

C3_Witness ==
    /\ pc = "returned" /\ op = "resize_image"
    /\ args.width # args.height
    /\ Rows(image) # args.height /\ Cols(image) # args.width
    /\ Rows(image) * args.width # Cols(image) * args.height
    /\ Chans(image) = 3
    /\ Rows(result) = args.height /\ Cols(result) = args.width

\* C4: for a 3-channel colour image, the output of apply_threshold is a
\* single-channel image of the same height and width whose samples are all
\* 0 or 255, for 'otsu' and for 'adaptive' with a valid block size and any
\* offset.
C4_BinaryOutput ==
    (/\ pc = "returned" /\ op = "apply_threshold" /\ Chans(image) = 3
     /\ \/ args.method = "otsu"
        \/ args.method = "adaptive" /\ args.block_size % 2 = 1 /\ args.block_size > 1)
        => /\ outcome = "ok"
           /\ Rows(result) = Rows(image) /\ Cols(result) = Cols(image)
           /\ \A y \in 1..Rows(result), x \in 1..Cols(result) :
                Len(result.px[y][x]) = 1 /\ result.px[y][x][1] \in {0, 255}

C4_Witness ==
    /\ pc = "returned" /\ op = "apply_threshold" /\ args.method = "adaptive"
    /\ Chans(image) = 3 /\ ~IsFlat(image)
    /\ outcome = "ok"
    /\ Samples(result) = {0, 255}

\* The (input sample, output sample) pairs of a call, position by position.
SamplePairs ==
    {<<At(image, y, x, k), At(result, y, x, k)>> :
        y \in 0..(Rows(image) - 1), x \in 0..(Cols(image) - 1), k \in 0..(Chans(image) - 1)}

\* C5: for an image that is not constant, the output of contrast_stretch has
\* minimum sample 0 and maximum sample 255, every output sample is within
\* half a unit of the linear min-max rescaling of its input sample, and the
\* order of the sample values is preserved.
C5_StretchRange ==
    (pc = "returned" /\ op = "contrast_stretch" /\ ~IsConstant(image))
        => LET lo == SetMin(Samples(image))
               hi == SetMax(Samples(image))
           IN  /\ outcome = "ok"
               /\ SameShape(result, image)
               /\ SetMin(Samples(result)) = 0
               /\ SetMax(Samples(result)) = 255
               /\ \A p \in SamplePairs :
                    2 * Abs(p[2] * (hi - lo) - 255 * (p[1] - lo)) <= hi - lo
               /\ \A p, q \in SamplePairs :
                    /\ p[1] < q[1] => p[2] < q[2]
                    /\ p[1] = q[1] => p[2] = q[2]

C5_Witness ==
    /\ pc = "returned" /\ op = "contrast_stretch"
    /\ Cardinality(Samples(image)) >= 3
    /\ SetMin(Samples(image)) > 0
    /\ SetMax(Samples(image)) < 255
    /\ SetMin(Samples(result)) = 0 /\ SetMax(Samples(result)) = 255

\* C6: for a constant image, whatever its value, contrast_stretch returns an
\* image of the same shape whose samples are all 0: it does not fail and
\* does not hand the input back unless the value is 0.
C6_StretchConstant ==
    (pc = "returned" /\ op = "contrast_stretch" /\ IsConstant(image))
        => /\ outcome = "ok"
           /\ SameShape(result, image)
           /\ Samples(result) = {0}
           /\ (result = image) <=> (Samples(image) = {0})

C6_Witness ==
    /\ pc = "returned" /\ op = "contrast_stretch"
    /\ Samples(image) = {128} /\ Chans(image) = 3 /\ Rows(image) > 1
    /\ Samples(result) = {0}

\* C7: sharpen returns a flat image (all pixels of one colour) unchanged,
\* border pixels included, and so does sharpen applied to that result.
C7_SharpenFlat ==
    (pc = "returned" /\ op = "sharpen" /\ IsFlat(image))
        => /\ outcome = "ok"
           /\ result = image
           /\ sharpen(result).result = image

C7_Witness ==
    /\ pc = "returned" /\ op = "sharpen" /\ IsFlat(image)
    /\ image.px[1][1] = <<30, 200, 90>>
    /\ Rows(image) > 1 /\ Cols(image) > 1
    /\ result = image

\* C9, as claimed: in reduce_noise each argument reaches the denoiser in the
\* role its name and documentation give it: h as the strength of the colour
\* components, hColor as the other (luminance) strength, templateWindowSize
\* as the size of the template patch.
C9_ArgumentRoles ==
    (pc = "returned" /\ op = "reduce_noise" /\ outcome = "ok")
        => /\ result.hColor = args.h
           /\ result.h = args.hColor
           /\ result.templateWindowSize = args.templateWindowSize

\* The rows and columns of the kernel_size window placed on position p.
Window(p, ks, n) == {q \in 0..(n - 1) : p - (ks \div 2) <= q /\ q <= p - (ks \div 2) + ks - 1}

\* C10: dilation returns an image of the same shape in which each sample is
\* the maximum of the input samples in the filled kernel_size square placed
\* on its position; no output sample is below the input sample there, and
\* kernel_size = 1 returns the image unchanged.
C10_DilationMax ==
    (pc = "returned" /\ op = "dilation")
        => /\ outcome = "ok"
           /\ SameShape(result, image)
           /\ \A y \in 0..(Rows(image) - 1), x \in 0..(Cols(image) - 1), k \in 0..(Chans(image) - 1) :
                LET win == {At(image, yy, xx, k) :
                              yy \in Window(y, args.kernel_size, Rows(image)),
                              xx \in Window(x, args.kernel_size, Cols(image))}
                IN  /\ At(result, y, x, k) \in win
                    /\ \A v \in win : v <= At(result, y, x, k)
                    /\ At(result, y, x, k) >= At(image, y, x, k)
           /\ args.kernel_size = 1 => result = image

C10_Witness ==
    /\ pc = "returned" /\ op = "dilation" /\ args.kernel_size = 3
    /\ Chans(image) = 3 /\ Rows(image) > 2 /\ Cols(image) > 2
    /\ result # image
    /\ At(result, 0, 0, 1) = At(image, 1, 1, 1)
    /\ At(image, 1, 1, 1) > Max2(At(image, 0, 1, 1), At(image, 1, 0, 1))

=============================================================================
